---- MODULE Spec2Model ----
(***************************************************************************)
(* MoneyScope (src/app.py): a linear five-node LangGraph pipeline that     *)
(* threads a ForexAnalysisState dict through                               *)
(*   collect_exchange_rate -> collect_news -> collect_trends               *)
(*   -> analyze_data -> generate_report -> END                             *)
(* plus the three tool functions the nodes call and the Streamlit handler  *)
(* that starts a run.                                                      *)
(*                                                                         *)
(* Data representation.                                                    *)
(*   - A Python str is a sequence of atoms; the atom "/" is the slash      *)
(*     character and every other atom is a slash-free chunk of text.       *)
(*   - A Python dict is a TLA+ function whose DOMAIN is the set of keys    *)
(*     present; a missing key is a key outside the DOMAIN.                 *)
(*   - A Python list is wrapped as [items |-> <<...>>]; None is Null.      *)
(*   - The outcome of a call is [kind |-> "return", value |-> v] or        *)
(*     [kind |-> "raise", exc |-> name].                                   *)
(***************************************************************************)
EXTENDS Integers, Sequences, FiniteSets, TLC

\* ------------------------------------------------------------------ bounds
MaxPairLen == 3          \* longest currency_pair string, in atoms
MaxArticles == 5         \* longest article list in a news response
UniformGrid == 4         \* grid points of random.uniform kept next to each end
MaxRunArticles == 1      \* longest article list inside a pipeline run

\* ------------------------------------------------------- program constants
pageSize == 3            \* params["pageSize"]
StrengthLo == 3          \* random.randint(3, 8)
StrengthHi == 8
UniformLo == 100         \* random.uniform(0.1, 5.0), in thousandths
UniformHi == 5000
VolumeLo == 50           \* random.randint(50, 500)
VolumeHi == 500
HttpOk == 200            \* response.status_code == 200

Null == "None"

\* ---------------------------------------------------------------- strings
PairAlphabet == {"USD", "INR", "/"}

RECURSIVE StringsUpTo(_)
StringsUpTo(n) ==
    IF n = 0 THEN {<< >>}
    ELSE LET shorter == StringsUpTo(n - 1)
         IN  shorter \cup {Append(s, a) : s \in {t \in shorter : Len(t) = n - 1},
                                          a \in PairAlphabet}

\* '/' in currency_pair
HasSlash(s) == \E i \in 1..Len(s) : s[i] = "/"

\* currency_pair.split('/'): the list of the (possibly empty) pieces between
\* slashes; a string with k slashes gives k + 1 pieces.
RECURSIVE SplitFrom(_, _, _)
SplitFrom(s, i, cur) ==
    IF i > Len(s) THEN << cur >>
    ELSE IF s[i] = "/" THEN << cur >> \o SplitFrom(s, i + 1, << >>)
    ELSE SplitFrom(s, i + 1, Append(cur, s[i]))

Split(s) == SplitFrom(s, 1, << >>)

\* str(n) for a non-negative integer, as a sequence of digit atoms
DigitChars == << "0", "1", "2", "3", "4", "5", "6", "7", "8", "9" >>

RECURSIVE IntToStr(_)
IntToStr(n) ==
    IF n < 10 THEN << DigitChars[n + 1] >>
    ELSE Append(IntToStr(n \div 10), DigitChars[(n % 10) + 1])

\* needle in haystack, for strings
Contains(haystack, needle) ==
    \E i \in 0..(Len(haystack) - Len(needle)) :
        \A j \in 1..Len(needle) : haystack[i + j] = needle[j]

\* ------------------------------------------------------------ call outcomes
Return(v) == [kind |-> "return", value |-> v]
Raise(e) == [kind |-> "raise", exc |-> e]

IsList(v) == "items" \in DOMAIN v
IsErrorRecord(v) ==
    /\ DOMAIN v = {"status", "message"}
    /\ v["status"] = "error"

\* dict restricted to the keys in K
Restrict(d, K) == [k \in K |-> d[k]]

\* d.get(k) with the default None
Get(d, k) == IF k \in DOMAIN d THEN d[k] ELSE Null

\* ------------------------------------------------- get_exchange_rate (tool)
\* What requests.get(url) and response.json() can deliver.  Either the
\* transport raises, or a response with a status code arrives whose body
\* either fails to parse or parses to a dict holding some of the consumed keys.
RateKeys == {"conversion_rate", "time_last_update_utc", "time_next_update_utc"}
RateValues == {"83.5", "0.012"}
TimeValues == {"Mon, 01 Jan", "Tue, 02 Jan"}
StatusCodes == {200, 404, 500}
TransportMessages == {<< "Connection refused" >>}

\* The bodies of a 200: not JSON, or a dict holding any subset of the
\* consumed keys, with the rate taken from R and the timestamps from T.
RateBodies(R, T) ==
    {[json |-> FALSE]} \cup
    {[json |-> TRUE,
      data |-> Restrict([conversion_rate |-> r, time_last_update_utc |-> l,
                         time_next_update_utc |-> n], K)] :
        K \in SUBSET RateKeys, r \in R, l \in T, n \in T}

\* A response that is not a 200 carries an error page, not the payload.
ErrorBodies == {[json |-> FALSE]}

RateResponses(R, T) ==
    {[kind |-> "transport_error", message |-> m] : m \in TransportMessages} \cup
    {[kind |-> "http", status_code |-> HttpOk, body |-> b] : b \in RateBodies(R, T)} \cup
    {[kind |-> "http", status_code |-> c, body |-> b] :
        c \in StatusCodes \ {HttpOk}, b \in ErrorBodies}

ErrorRecord(msg) == [status |-> "error", message |-> msg]

StatusMessage(code) == << "API returned status code " >> \o IntToStr(code)

\* str(e) of the KeyError raised by data[key]
KeyErrorMessage(key) == << "'", key, "'" >>
JsonErrorMessage == << "Expecting value: line 1 column 1 (char 0)" >>

\* The first key the dict literal of lines 33-40 looks up and does not find.
FirstMissingRateKey(data) ==
    IF "conversion_rate" \notin DOMAIN data THEN "conversion_rate"
    ELSE IF "time_last_update_utc" \notin DOMAIN data THEN "time_last_update_utc"
    ELSE "time_next_update_utc"

\* Mutant of get_exchange_rate: requests.get sits outside the try block, so a
\* transport error leaves the function as an exception.
get_exchange_rate_unguarded(base_currency, target_currency, resp) ==
    IF resp.kind = "transport_error"
    THEN Raise("ConnectionError")
    ELSE IF resp.status_code = HttpOk
    THEN IF ~resp.body.json
         THEN Return(ErrorRecord(JsonErrorMessage))
         ELSE IF RateKeys \subseteq DOMAIN resp.body.data
         THEN Return([base_currency |-> base_currency,
                      target_currency |-> target_currency,
                      rate |-> resp.body.data["conversion_rate"],
                      last_updated |-> resp.body.data["time_last_update_utc"],
                      next_update |-> resp.body.data["time_next_update_utc"],
                      status |-> "success"])
         ELSE Return(ErrorRecord(KeyErrorMessage(FirstMissingRateKey(resp.body.data))))
    ELSE Return(ErrorRecord(StatusMessage(resp.status_code)))

\* Mutant of get_exchange_rate: the two timestamps are swapped.
get_exchange_rate_swapped(base_currency, target_currency, resp) ==
    IF resp.kind = "transport_error"
    THEN Return(ErrorRecord(resp.message))
    ELSE IF resp.status_code = HttpOk
    THEN IF ~resp.body.json
         THEN Return(ErrorRecord(JsonErrorMessage))
         ELSE IF RateKeys \subseteq DOMAIN resp.body.data
         THEN Return([base_currency |-> base_currency,
                      target_currency |-> target_currency,
                      rate |-> resp.body.data["conversion_rate"],
                      last_updated |-> resp.body.data["time_next_update_utc"],
                      next_update |-> resp.body.data["time_last_update_utc"],
                      status |-> "success"])
         ELSE Return(ErrorRecord(KeyErrorMessage(FirstMissingRateKey(resp.body.data))))
    ELSE Return(ErrorRecord(StatusMessage(resp.status_code)))

\* Mutant of get_exchange_rate: the fields are read with data.get(...), so a
\* missing one becomes None in a record that still says "success".
get_exchange_rate_lenient(base_currency, target_currency, resp) ==
    IF resp.kind = "transport_error"
    THEN Return(ErrorRecord(resp.message))
    ELSE IF resp.status_code = HttpOk
    THEN IF ~resp.body.json
         THEN Return(ErrorRecord(JsonErrorMessage))
         ELSE Return([base_currency |-> base_currency,
                      target_currency |-> target_currency,
                      rate |-> Get(resp.body.data, "conversion_rate"),
                      last_updated |-> Get(resp.body.data, "time_last_update_utc"),
                      next_update |-> Get(resp.body.data, "time_next_update_utc"),
                      status |-> "success"])
    ELSE Return(ErrorRecord(StatusMessage(resp.status_code)))

get_exchange_rate(base_currency, target_currency, resp) ==
    IF resp.kind = "transport_error"
    THEN Return(ErrorRecord(resp.message))
    ELSE IF resp.status_code = HttpOk
    THEN IF ~resp.body.json
         THEN Return(ErrorRecord(JsonErrorMessage))
         ELSE IF RateKeys \subseteq DOMAIN resp.body.data
         THEN Return([base_currency |-> base_currency,
                      target_currency |-> target_currency,
                      rate |-> resp.body.data["conversion_rate"],
                      last_updated |-> resp.body.data["time_last_update_utc"],
                      next_update |-> resp.body.data["time_next_update_utc"],
                      status |-> "success"])
         ELSE Return(ErrorRecord(KeyErrorMessage(FirstMissingRateKey(resp.body.data))))
    ELSE Return(ErrorRecord(StatusMessage(resp.status_code)))

\* ---------------------------------------------------- get_forex_news (tool)
\* JSON null where an object or a list was expected
JsonNull == [null |-> TRUE]
IsJsonNull(v) == DOMAIN v = {"null"}

\* The article objects a response may carry: two complete ones, one with
\* every key but the title missing, and one whose "source" is null.
ArticleObjects ==
    {[title |-> "a", source |-> [name |-> "Reuters"], publishedAt |-> "2024-01-02",
      url |-> "https://n/a", description |-> "d"],
     [title |-> "b", source |-> [name |-> "BBC"], publishedAt |-> "2024-01-01",
      url |-> "https://n/b", description |-> "e"],
     [title |-> "c"],
     [title |-> "d", source |-> JsonNull]}

RECURSIVE ArticleLists(_)
ArticleLists(n) ==
    IF n = 0 THEN {<< >>}
    ELSE LET shorter == ArticleLists(n - 1)
         IN  shorter \cup {Append(s, a) : s \in {t \in shorter : Len(t) = n - 1},
                                          a \in ArticleObjects}

\* Bodies of a news response whose article list has at most n entries: not
\* JSON, no "articles" key, "articles": null, or a list.
NewsBodies(n) ==
    {[json |-> FALSE],
     [json |-> TRUE, data |-> [status |-> "ok"]],
     [json |-> TRUE, data |-> [status |-> "ok", articles |-> JsonNull]]} \cup
    {[json |-> TRUE, data |-> [status |-> "ok", articles |-> [items |-> l]]] :
        l \in ArticleLists(n)}

NewsResponses(n) ==
    {[kind |-> "transport_error", message |-> m] : m \in TransportMessages} \cup
    {[kind |-> "http", status_code |-> HttpOk, body |-> b] : b \in NewsBodies(n)} \cup
    {[kind |-> "http", status_code |-> c, body |-> b] :
        c \in StatusCodes \ {HttpOk}, b \in ErrorBodies}

NoneNotIterable == << "'NoneType' object is not iterable" >>
NoneHasNoGet == << "'NoneType' object has no attribute 'get'" >>

\* article.get("source", {}).get("name") raises when "source" is null
SourceRaises(article) ==
    /\ "source" \in DOMAIN article
    /\ IsJsonNull(article["source"])

SourceName(article) ==
    IF "source" \in DOMAIN article THEN Get(article["source"], "name") ELSE Null

\* one element of the list comprehension of lines 64-73
NewsEntry(article) ==
    [title |-> Get(article, "title"),
     source |-> SourceName(article),
     published_at |-> Get(article, "publishedAt"),
     url |-> Get(article, "url"),
     description |-> Get(article, "description")]

\* data.get("articles", [])
ArticlesField(data) ==
    IF "articles" \in DOMAIN data THEN data["articles"] ELSE [items |-> << >>]

\* Mutant of get_forex_news: a response that is not a 200 is raised as an
\* error (response.raise_for_status()) instead of being returned as a record.
get_forex_news_raising(currency_pair, resp) ==
    IF Len(Split(currency_pair)) # 2
    THEN Raise("ValueError")
    ELSE IF resp.kind = "transport_error"
    THEN Return(ErrorRecord(resp.message))
    ELSE IF resp.status_code = HttpOk
    THEN IF ~resp.body.json
         THEN Return(ErrorRecord(JsonErrorMessage))
         ELSE LET articles == ArticlesField(resp.body.data)
              IN  IF IsJsonNull(articles)
                  THEN Return(ErrorRecord(NoneNotIterable))
                  ELSE IF \E i \in 1..Len(articles.items) : SourceRaises(articles.items[i])
                  THEN Return(ErrorRecord(NoneHasNoGet))
                  ELSE Return([items |-> [i \in 1..Len(articles.items) |->
                                              NewsEntry(articles.items[i])]])
    ELSE Raise("HTTPError")

get_forex_news(currency_pair, resp) ==
    IF Len(Split(currency_pair)) # 2
    THEN Raise("ValueError")
    ELSE IF resp.kind = "transport_error"
    THEN Return(ErrorRecord(resp.message))
    ELSE IF resp.status_code = HttpOk
    THEN IF ~resp.body.json
         THEN Return(ErrorRecord(JsonErrorMessage))
         ELSE LET articles == ArticlesField(resp.body.data)
              IN  IF IsJsonNull(articles)
                  THEN Return(ErrorRecord(NoneNotIterable))
                  ELSE IF \E i \in 1..Len(articles.items) : SourceRaises(articles.items[i])
                  THEN Return(ErrorRecord(NoneHasNoGet))
                  ELSE Return([items |-> [i \in 1..Len(articles.items) |->
                                              NewsEntry(articles.items[i])]])
    ELSE Return(ErrorRecord(StatusMessage(resp.status_code)))

\* ----------------------------------------------- analyze_forex_trends (tool)
trend_directions == << "upward", "downward", "sideways" >>
sentiment_options == << "bullish", "bearish", "neutral" >>

\* random.choice(seq) returns seq[i] for an index i of seq
ChoiceIndexes(seq) == 1..Len(seq)

\* random.randint(a, b) returns an integer of a..b
RandInt(a, b) == a..b

\* random.uniform(a, b) returns a float of [a, b]; the model keeps, in
\* thousandths, the g + 1 grid points next to each end and the midpoint.
Uniform(a, b, g) ==
    {a + k : k \in 0..g} \cup {b - k : k \in 0..g} \cup {(a + b) \div 2}

\* round(x, 2) of a value in thousandths, giving hundredths (ties to even)
Round2(x) ==
    LET q == x \div 10
        r == x % 10
    IN  IF r < 5 THEN q
        ELSE IF r > 5 THEN q + 1
        ELSE IF q % 2 = 0 THEN q ELSE q + 1

\* Mutant of TrendDraws: the strength is drawn one past the upper end.
TrendDrawsWide(U, V) ==
    [trend : ChoiceIndexes(trend_directions),
     strength : RandInt(StrengthLo, StrengthHi + 1),
     sentiment : ChoiceIndexes(sentiment_options),
     uniform : U,
     volume : V]

\* The five draws of lines 88-92, with the uniform draw taken from U and the
\* volume draw from V.
TrendDraws(U, V) ==
    [trend : ChoiceIndexes(trend_directions),
     strength : RandInt(StrengthLo, StrengthHi),
     sentiment : ChoiceIndexes(sentiment_options),
     uniform : U,
     volume : V]

analyze_forex_trends(currency_pair, draw) ==
    IF Len(Split(currency_pair)) # 2
    THEN Raise("ValueError")
    ELSE Return([base_currency |-> Split(currency_pair)[1],
                 target_currency |-> Split(currency_pair)[2],
                 current_trend |-> trend_directions[draw.trend],
                 trend_strength |-> draw.strength,
                 public_sentiment |-> sentiment_options[draw.sentiment],
                 volatility |-> Round2(draw.uniform),
                 trading_volume |-> IntToStr(draw.volume) \o << "M" >>])

\* ------------------------------------------------------------------- state
VARIABLES
    call,           \* tool level: the function called and its arguments
    env,            \* tool level: the response or random draws the call consumed
    ret,            \* tool level: the outcome of the call
    caller,         \* who calls analyze_currency_pair: "main" or "direct"
    keys,           \* the credentials present in the environment
    converter,      \* what the quick converter of main shows
    currency_pair,  \* the argument of analyze_currency_pair
    pc,             \* position of the run
    state,          \* the ForexAnalysisState dict of the run
    executed,       \* the nodes entered so far, in order
    calls,          \* external calls made by the run, per service
    raised,         \* the node whose exception ended the run, and the exception
    result,         \* what analyze_currency_pair returned
    ui              \* what the analyze handler of main has put on the page

toolVars == << call, env, ret >>
runVars == << caller, keys, converter, currency_pair, pc, state, executed,
              calls, raised, result, ui >>
vars == << call, env, ret, caller, keys, converter, currency_pair, pc, state,
           executed, calls, raised, result, ui >>

NoCall == [fn |-> "none"]
NoEnv == [kind |-> "none"]
Pending == [kind |-> "pending"]
NoRaise == [node |-> "none", exc |-> "none"]
BlankPage == [errors |-> 0, report |-> FALSE, download |-> FALSE]

\* The run-level variables of a program in which no run exists.
RunOff ==
    /\ caller = "none"
    /\ keys = {}
    /\ converter = "none"
    /\ currency_pair = << >>
    /\ pc = "off"
    /\ state = << >>
    /\ executed = << >>
    /\ calls = << >>
    /\ raised = NoRaise
    /\ result = Pending
    /\ ui = BlankPage

\* The tool-level variables of a program in which no tool is called directly.
ToolsOff ==
    /\ call = NoCall
    /\ env = NoEnv
    /\ ret = Pending

\* ------------------------------------------------- the tools, called directly
\* Every string of at most MaxPairLen atoms, and a pair with a second slash.
ExampleStrings == {<< "USD", "/", "INR", "/", "EUR" >>}
PairStrings == StringsUpTo(MaxPairLen) \cup ExampleStrings
CodeStrings == {s \in PairStrings : ~HasSlash(s)}

ToolCalls ==
    {[fn |-> "get_exchange_rate", base |-> b, target |-> t] :
        b \in CodeStrings, t \in CodeStrings} \cup
    {[fn |-> f, pair |-> s] :
        f \in {"get_forex_news", "analyze_forex_trends"}, s \in PairStrings}

InitTools ==
    /\ call \in ToolCalls
    /\ env = NoEnv
    /\ ret = Pending
    /\ RunOff

CallExchangeRate ==
    /\ call.fn = "get_exchange_rate"
    /\ ret = Pending
    /\ \E resp \in RateResponses(RateValues, TimeValues) :
        /\ env' = resp
        /\ ret' = get_exchange_rate(call.base, call.target, resp)
    /\ UNCHANGED << call, runVars >>

CallForexNews ==
    /\ call.fn = "get_forex_news"
    /\ ret = Pending
    /\ \E resp \in NewsResponses(MaxArticles) :
        /\ env' = resp
        /\ ret' = get_forex_news(call.pair, resp)
    /\ UNCHANGED << call, runVars >>

CallForexTrends ==
    /\ call.fn = "analyze_forex_trends"
    /\ ret = Pending
    /\ \E draw \in TrendDraws(Uniform(UniformLo, UniformHi, UniformGrid),
                               {VolumeLo, VolumeHi}) :
        /\ env' = [kind |-> "draw", draw |-> draw]
        /\ ret' = analyze_forex_trends(call.pair, draw)
    /\ UNCHANGED << call, runVars >>

NextTools == CallExchangeRate \/ CallForexNews \/ CallForexTrends

SpecTools == InitTools /\ [][NextTools]_vars

\* ------------------------------------------------------- the LangGraph nodes
\* The language-model service: the call raises, or a completion arrives
\* whose list of choices is empty or holds one text.
Completions == {"text one", "text two"}

ModelResponses ==
    {[kind |-> "api_error"]} \cup
    {[kind |-> "completion", choices |-> << >>]} \cup
    {[kind |-> "completion", choices |-> << c >>] : c \in Completions}

\* Mutant of ModelContent: a failed model call yields a fallback text.
ModelContentFallback(resp) ==
    IF resp.kind = "api_error" THEN Return("analysis unavailable")
    ELSE IF Len(resp.choices) = 0 THEN Return("analysis unavailable")
    ELSE Return(resp.choices[1])

\* client.chat.completions.create(...) followed by response.choices[0].message.content
ModelContent(resp) ==
    IF resp.kind = "api_error" THEN Raise("APIError")
    ELSE IF Len(resp.choices) = 0 THEN Raise("IndexError")
    ELSE Return(resp.choices[1])

collect_exchange_rate(st, resp) ==
    IF "currency_pair" \notin DOMAIN st
    THEN Raise("KeyError")
    ELSE IF Len(Split(st["currency_pair"])) # 2
    THEN Raise("ValueError")
    ELSE LET got == get_exchange_rate(Split(st["currency_pair"])[1],
                                      Split(st["currency_pair"])[2], resp)
         IN  IF got.kind = "raise" THEN got
             ELSE Return([exchange_rate_data |-> got.value])

\* Mutant of collect_news: the node also writes a fresh exchange_rate_data.
collect_news_rewrites(st, resp) ==
    IF "currency_pair" \notin DOMAIN st
    THEN Raise("KeyError")
    ELSE LET got == get_forex_news(st["currency_pair"], resp)
         IN  IF got.kind = "raise" THEN got
             ELSE Return([news_data |-> got.value,
                          exchange_rate_data |-> ErrorRecord(<< "stale" >>)])

collect_news(st, resp) ==
    IF "currency_pair" \notin DOMAIN st
    THEN Raise("KeyError")
    ELSE LET got == get_forex_news(st["currency_pair"], resp)
         IN  IF got.kind = "raise" THEN got ELSE Return([news_data |-> got.value])

collect_trends(st, draw) ==
    IF "currency_pair" \notin DOMAIN st
    THEN Raise("KeyError")
    ELSE LET got == analyze_forex_trends(st["currency_pair"], draw)
         IN  IF got.kind = "raise" THEN got ELSE Return([trend_data |-> got.value])

\* The keys the prompt of a model node reads from the state.
AnalyzeReads == {"currency_pair", "exchange_rate_data", "news_data", "trend_data"}
ReportReads == AnalyzeReads \cup {"data_analysis"}

analyze_data(st, resp) ==
    IF ~(AnalyzeReads \subseteq DOMAIN st)
    THEN Raise("KeyError")
    ELSE LET got == ModelContent(resp)
         IN  IF got.kind = "raise" THEN got ELSE Return([data_analysis |-> got.value])

generate_report(st, resp) ==
    IF ~(ReportReads \subseteq DOMAIN st)
    THEN Raise("KeyError")
    ELSE LET got == ModelContent(resp)
         IN  IF got.kind = "raise" THEN got ELSE Return([final_report |-> got.value])

\* ------------------------------------------------------ ForexAnalysisGraph
END == "END"

\* Mutant of Edges: the edge out of collect_news skips collect_trends.
EdgesSkipTrends ==
    [collect_exchange_rate |-> "collect_news",
     collect_news |-> "analyze_data",
     collect_trends |-> "analyze_data",
     analyze_data |-> "generate_report",
     generate_report |-> END]

\* Mutant of Edges: the edge out of analyze_data leads to a node that was
\* never added.
EdgesDangling ==
    [collect_exchange_rate |-> "collect_news",
     collect_news |-> "collect_trends",
     collect_trends |-> "analyze_data",
     analyze_data |-> "review_report",
     generate_report |-> END]

\* workflow.add_edge(...) of lines 231-235
Edges ==
    [collect_exchange_rate |-> "collect_news",
     collect_news |-> "collect_trends",
     collect_trends |-> "analyze_data",
     analyze_data |-> "generate_report",
     generate_report |-> END]

\* workflow.set_entry_point(...)
EntryPoint == "collect_exchange_rate"

\* Mutant of Merge: the returned dict replaces the state.
MergeReplace(st, update) == update

\* Mutant of Merge: the write of the last node keeps only that node's dict.
MergeLastOnly(st, update) ==
    IF "final_report" \in DOMAIN update THEN update
    ELSE [k \in DOMAIN st \cup DOMAIN update |->
             IF k \in DOMAIN update THEN update[k] ELSE st[k]]

\* The graph writes the dict a node returned into the state.
Merge(st, update) ==
    [k \in DOMAIN st \cup DOMAIN update |->
        IF k \in DOMAIN update THEN update[k] ELSE st[k]]

FormatError == << "Error: Currency pair should be in format 'XXX/YYY' (e.g., 'USD/INR')" >>

\* One record of the log of external calls.
RequestLog(service, resp) ==
    [service |-> service,
     outcome |-> resp.kind,
     status_code |-> IF resp.kind = "http" THEN resp.status_code ELSE 0,
     choices |-> IF resp.kind = "completion" THEN Len(resp.choices) ELSE 0]

\* ---------------------------------------------------------------- main()
AllKeys == {"EXCHANGE_RATE_API_KEY", "NEWS_API_KEY", "GROQ_API_KEY"}
all_currencies == {"USD", "INR"}

\* bool(missing_keys): the analyze button is disabled
\* Mutant of missing_keys: the check of the model key is forgotten.
missing_keys_without_model == {"EXCHANGE_RATE_API_KEY", "NEWS_API_KEY"} \ keys

missing_keys == AllKeys \ keys

\* The pairs the two select boxes can form: the target options exclude the base.
DashboardPairs ==
    {<< bt[1], "/", bt[2] >> :
        bt \in {x \in all_currencies \X all_currencies : x[1] # x[2]}}

\* ------------------------------------------------------------ the run: Init
\* The responses and draws offered to a run.
RunRateResponses == RateResponses({"83.5"}, {"Mon, 01 Jan"})
RunNewsResponses == NewsResponses(MaxRunArticles)
RunTrendDraws ==
    {d \in TrendDraws({UniformLo, UniformHi}, {VolumeLo}) :
        /\ d.trend = 1
        /\ d.sentiment = 1
        /\ \/ d.strength = StrengthLo /\ d.uniform = UniformLo
           \/ d.strength = StrengthHi /\ d.uniform = UniformHi}

Init ==
    /\ ToolsOff
    /\ \/ /\ caller = "main"
          /\ keys \in SUBSET AllKeys
          /\ currency_pair \in DashboardPairs
          /\ pc = "render"
       \/ /\ caller = "direct"
          /\ keys = AllKeys
          /\ currency_pair \in PairStrings
          /\ pc = "call"
    /\ converter = "none"
    /\ state = << >>
    /\ executed = << >>
    /\ calls = << >>
    /\ raised = NoRaise
    /\ result = Pending
    /\ ui = BlankPage

\* ---------------------------------------------------------- the run: steps
\* Lines 320-336 and 338-355: the page is drawn; the quick converter fetches
\* the rate for the selected pair and the analyze button appears.
Render ==
    /\ pc = "render"
    /\ \E resp \in RunRateResponses :
        LET got == get_exchange_rate(Split(currency_pair)[1],
                                     Split(currency_pair)[2], resp)
        IN  converter' = IF got.kind = "raise" THEN "conversion error"
                         ELSE IF got.value["status"] = "success" THEN "converted"
                         ELSE "error"
    /\ pc' = "button"
    /\ UNCHANGED << toolVars, caller, keys, currency_pair, state, executed, calls,
                    raised, result, ui >>

\* What the handler of lines 382-413 puts on the page once the call is over.
Page(outcome) ==
    IF caller # "main" THEN ui
    ELSE IF outcome.kind = "raise"
    THEN [ui EXCEPT !.errors = @ + 1]
    ELSE [ui EXCEPT !.report = TRUE, !.download = TRUE]

\* Mutant of Enter: the entry check is missing.
EnterUnchecked ==
    /\ pc' = EntryPoint
    /\ state' = [currency_pair |-> currency_pair]
    /\ UNCHANGED << result, ui >>

\* Lines 245-252: the entry check and the initial state.
Enter ==
    IF ~HasSlash(currency_pair)
    THEN /\ pc' = "rejected"
         /\ result' = Return(FormatError)
         /\ ui' = Page(Return(FormatError))
         /\ state' = state
    ELSE /\ pc' = EntryPoint
         /\ state' = [currency_pair |-> currency_pair]
         /\ UNCHANGED << result, ui >>

\* The analyze button is pressed; it is disabled while a key is missing.
ClickAnalyze ==
    /\ caller = "main"
    /\ pc = "button"
    /\ missing_keys = {}
    /\ Enter
    /\ UNCHANGED << toolVars, caller, keys, converter, currency_pair, executed,
                    calls, raised >>

\* analyze_currency_pair is called by other code.
DirectCall ==
    /\ caller = "direct"
    /\ pc = "call"
    /\ Enter
    /\ UNCHANGED << toolVars, caller, keys, converter, currency_pair, executed,
                    calls, raised >>

\* graph.invoke runs one node: an exception leaves invoke and
\* analyze_currency_pair; a returned dict is merged and the edge is followed,
\* and at END analyze_currency_pair returns result["final_report"].
RunNode(node, outcome, requests) ==
    /\ pc = node
    /\ executed' = Append(executed, node)
    /\ calls' = calls \o requests
    /\ IF outcome.kind = "raise"
       THEN /\ pc' = "failed"
            /\ raised' = [node |-> node, exc |-> outcome.exc]
            /\ result' = outcome
            /\ ui' = Page(outcome)
            /\ state' = state
       ELSE LET merged == Merge(state, outcome.value)
            IN  /\ state' = merged
                /\ IF Edges[node] # END
                   THEN /\ pc' = Edges[node]
                        /\ UNCHANGED << raised, result, ui >>
                   ELSE IF "final_report" \in DOMAIN merged
                   THEN /\ pc' = "done"
                        /\ result' = Return(merged["final_report"])
                        /\ ui' = Page(Return(merged["final_report"]))
                        /\ raised' = raised
                   ELSE /\ pc' = "failed"
                        /\ raised' = [node |-> "analyze_currency_pair", exc |-> "KeyError"]
                        /\ result' = Raise("KeyError")
                        /\ ui' = Page(Raise("KeyError"))
    /\ UNCHANGED << toolVars, caller, keys, converter, currency_pair >>

\* Mutant of Requests: a fetch that failed is sent a second time.
RequestsRetried(service, resp) ==
    IF "currency_pair" \in DOMAIN state /\ Len(Split(state["currency_pair"])) = 2
    THEN IF resp.kind = "http" /\ resp.status_code = HttpOk
         THEN << RequestLog(service, resp) >>
         ELSE << RequestLog(service, resp), RequestLog(service, resp) >>
    ELSE << >>

\* The request is sent only when the unpacking of the split succeeded.
Requests(service, resp) ==
    IF "currency_pair" \in DOMAIN state /\ Len(Split(state["currency_pair"])) = 2
    THEN << RequestLog(service, resp) >> ELSE << >>

\* The model is called only when the prompt could be built.
ModelRequests(reads, resp) ==
    IF reads \subseteq DOMAIN state THEN << RequestLog("model", resp) >> ELSE << >>

CollectExchangeRate ==
    \E resp \in RunRateResponses :
        RunNode("collect_exchange_rate", collect_exchange_rate(state, resp),
                Requests("rate", resp))

CollectNews ==
    \E resp \in RunNewsResponses :
        RunNode("collect_news", collect_news(state, resp), Requests("news", resp))

CollectTrends ==
    \E draw \in RunTrendDraws :
        RunNode("collect_trends", collect_trends(state, draw), << >>)

AnalyzeData ==
    \E resp \in ModelResponses :
        RunNode("analyze_data", analyze_data(state, resp),
                ModelRequests(AnalyzeReads, resp))

GenerateReport ==
    \E resp \in ModelResponses :
        RunNode("generate_report", generate_report(state, resp),
                ModelRequests(ReportReads, resp))

Next ==
    \/ Render
    \/ ClickAnalyze
    \/ DirectCall
    \/ CollectExchangeRate
    \/ CollectNews
    \/ CollectTrends
    \/ AnalyzeData
    \/ GenerateReport

Spec == Init /\ [][Next]_vars

\* Execution is single-threaded and every external call blocks until it
\* returns or raises, so a node that has been reached does run; whether the
\* button is pressed or analyze_currency_pair is called is up to the caller.
NodeStep ==
    \/ CollectExchangeRate
    \/ CollectNews
    \/ CollectTrends
    \/ AnalyzeData
    \/ GenerateReport

FairSpec == Spec /\ WF_vars(NodeStep)

\* ================================================================= claims
StageOrder == << "collect_exchange_rate", "collect_news", "collect_trends",
                 "analyze_data", "generate_report" >>
FieldOrder == << "currency_pair", "exchange_rate_data", "news_data", "trend_data",
                 "data_analysis", "final_report" >>
Stages == {StageOrder[i] : i \in 1..Len(StageOrder)}
BeforeCall == {"off", "render", "button", "call"}

IsPrefixOf(s, t) ==
    /\ Len(s) <= Len(t)
    /\ \A i \in 1..Len(s) : s[i] = t[i]

\* A fetch failed: the transport raised or the status code was not 200.
FetchFailed(service) ==
    \E i \in 1..Len(calls) :
        /\ calls[i].service = service
        /\ \/ calls[i].outcome = "transport_error"
           \/ calls[i].outcome = "http" /\ calls[i].status_code # 200

ModelCallOk(entry) == entry.outcome = "completion" /\ entry.choices > 0
ModelCalls == SelectSeq(calls, LAMBDA e : e.service = "model")
ModelCallFailed == \E i \in 1..Len(ModelCalls) : ~ModelCallOk(ModelCalls[i])

\* C1: the stages of a run execute in the one order collect_exchange_rate,
\* collect_news, collect_trends, analyze_data, generate_report, done: the
\* stages entered so far are a prefix of that order (none skipped, reordered
\* or repeated), the stage about to run is the successor of the last one
\* that completed, and done is reached only after all five.
C1_StagesInOrder ==
    /\ IsPrefixOf(executed, StageOrder)
    /\ pc \in Stages => Len(executed) < Len(StageOrder) /\ pc = StageOrder[Len(executed) + 1]
    /\ pc = "done" => executed = StageOrder

C1_Witness == pc = "done" /\ executed = StageOrder

\* C2: in every state of a run the populated fields of the analysis state
\* are a prefix of (currency_pair, exchange_rate_data, news_data, trend_data,
\* data_analysis, final_report), and a populated field is whole: its stage ran
\* and returned, and the value has the complete shape of that stage's result.
PopulatedPrefix ==
    \E n \in 0..Len(FieldOrder) : DOMAIN state = {FieldOrder[i] : i \in 1..n}

StageReturned(i) ==
    /\ Len(executed) >= i
    /\ executed[i] = StageOrder[i]
    /\ raised.node # StageOrder[i]

RateRecordWhole(v) ==
    \/ IsErrorRecord(v)
    \/ /\ DOMAIN v = {"base_currency", "target_currency", "rate", "last_updated",
                      "next_update", "status"}
       /\ v["status"] = "success"

TrendRecordWhole(v) ==
    DOMAIN v = {"base_currency", "target_currency", "current_trend", "trend_strength",
                "public_sentiment", "volatility", "trading_volume"}

FieldWhole(f) ==
    IF f = "currency_pair" THEN state[f] = currency_pair
    ELSE IF f = "exchange_rate_data" THEN RateRecordWhole(state[f])
    ELSE IF f = "news_data" THEN IsErrorRecord(state[f]) \/ IsList(state[f])
    ELSE IF f = "trend_data" THEN TrendRecordWhole(state[f])
    ELSE state[f] \in Completions

C2_FieldsArePrefix ==
    /\ PopulatedPrefix
    /\ \A i \in 1..Len(FieldOrder) :
        FieldOrder[i] \in DOMAIN state =>
            /\ FieldWhole(FieldOrder[i])
            /\ i > 1 => StageReturned(i - 1)

C2_Witness ==
    /\ pc = "failed"
    /\ raised.node = "analyze_data"
    /\ DOMAIN state = {"currency_pair", "exchange_rate_data", "news_data", "trend_data"}

\* C3: for a pair base/target with base # target, a run that has reached done
\* has all six fields of the analysis state populated, and what
\* analyze_currency_pair returned is the final_report field.
BaseDiffersFromTarget(s) ==
    /\ Len(Split(s)) = 2
    /\ Split(s)[1] # Split(s)[2]

C3_AllFieldsOnDone ==
    (pc = "done" /\ BaseDiffersFromTarget(currency_pair)) =>
        /\ DOMAIN state = {FieldOrder[i] : i \in 1..Len(FieldOrder)}
        /\ result = Return(state["final_report"])

C3_Witness ==
    /\ pc = "done"
    /\ currency_pair = << "USD", "/", "INR" >>
    /\ "final_report" \in DOMAIN state

\* C4: when the string given to analyze_currency_pair has no "/", the call
\* returns the fixed error string as a value, no stage runs and no request
\* is sent to the rate, news or model service.
NoSeparator(s) == \A i \in 1..Len(s) : s[i] # "/"

C4_NoSlashRejected ==
    (pc \notin BeforeCall /\ NoSeparator(currency_pair)) =>
        /\ pc = "rejected"
        /\ result = Return(FormatError)
        /\ raised = NoRaise
        /\ executed = << >>
        /\ calls = << >>
        /\ state = << >>

C4_Witness ==
    /\ pc = "rejected"
    /\ currency_pair = << "USD", "INR" >>
    /\ result = Return(FormatError)

\* C5: a failed rate or news fetch does not abort the run: the failure is
\* stored in the state as a status/message record, the run fails only if a
\* model call fails, and once both model calls have succeeded the run is done
\* with all five stages executed in order and a final report.
C5_FetchFailureNotFatal ==
    /\ FetchFailed("rate") =>
          /\ "exchange_rate_data" \in DOMAIN state
          /\ IsErrorRecord(state["exchange_rate_data"])
    /\ FetchFailed("news") =>
          /\ "news_data" \in DOMAIN state
          /\ IsErrorRecord(state["news_data"])
    /\ (FetchFailed("rate") \/ FetchFailed("news")) =>
          /\ pc \in Stages \cup {"done", "failed"}
          /\ pc = "failed" =>
                /\ raised.node \in {"analyze_data", "generate_report"}
                /\ ModelCallFailed
          /\ (Len(ModelCalls) = 2 /\ ~ModelCallFailed) =>
                /\ pc = "done"
                /\ executed = StageOrder
                /\ "final_report" \in DOMAIN state

C5_Witness ==
    /\ FetchFailed("rate")
    /\ FetchFailed("news")
    /\ pc = "done"
    /\ "final_report" \in DOMAIN state

\* C6: a model call that fails is fatal: the run is in the failed state, the
\* failing node is the last one that ran, final_report is not populated, and
\* the dashboard's handler shows exactly one error message, no report and no
\* download.
C6_ModelFailureFatal ==
    ModelCallFailed =>
        /\ pc = "failed"
        /\ raised.node \in {"analyze_data", "generate_report"}
        /\ executed[Len(executed)] = raised.node
        /\ ~ModelCallOk(ModelCalls[Len(ModelCalls)])
        /\ "final_report" \notin DOMAIN state
        /\ result.kind = "raise"
        /\ caller = "main" => ui = [errors |-> 1, report |-> FALSE, download |-> FALSE]

C6_Witness ==
    /\ caller = "main"
    /\ pc = "failed"
    /\ raised.node = "generate_report"
    /\ ModelCallFailed
    /\ ui.errors = 1

\* C7: get_exchange_rate never raises; a transport error or a response that
\* is not a 200 gives a record with status "error" and a message, and for a
\* response that is not a 200 the message contains the status code.
C7_RateNeverRaises ==
    (call.fn = "get_exchange_rate" /\ ret # Pending) =>
        /\ ret.kind = "return"
        /\ env.kind = "transport_error" =>
              /\ IsErrorRecord(ret.value)
              /\ ret.value["message"] = env.message
        /\ (env.kind = "http" /\ env.status_code # 200) =>
              /\ IsErrorRecord(ret.value)
              /\ Contains(ret.value["message"], IntToStr(env.status_code))

C7_Witness ==
    /\ call.fn = "get_exchange_rate"
    /\ env.kind = "http"
    /\ env.status_code = 404
    /\ ret.kind = "return"
    /\ Contains(ret.value["message"], << "4", "0", "4" >>)

\* C8: for a 200 whose article list has n entries, all well formed,
\* get_forex_news returns exactly min(n, 3) entries: the first ones of the
\* response, in the response's order.
Min(a, b) == IF a < b THEN a ELSE b

WellFormedArticles(resp) ==
    /\ resp.kind = "http"
    /\ resp.status_code = 200
    /\ resp.body.json
    /\ "articles" \in DOMAIN resp.body.data
    /\ IsList(resp.body.data["articles"])
    /\ \A i \in 1..Len(resp.body.data["articles"].items) :
          ~SourceRaises(resp.body.data["articles"].items[i])

C8_NewsCappedAtThree ==
    (call.fn = "get_forex_news" /\ ret.kind = "return" /\ WellFormedArticles(env)) =>
        LET sent == env.body.data["articles"].items
        IN  /\ IsList(ret.value)
            /\ Len(ret.value.items) = Min(Len(sent), 3)
            /\ \A i \in 1..Min(Len(sent), 3) : ret.value.items[i] = NewsEntry(sent[i])

\* C9: every record analyze_forex_trends returns has trend_strength in 3..8,
\* volatility in [0.1, 5.0] (10..500 hundredths), public_sentiment one of
\* bullish, bearish, neutral and current_trend one of upward, downward,
\* sideways.
C9_TrendRecordInRange ==
    (call.fn = "analyze_forex_trends" /\ ret.kind = "return") =>
        /\ ret.value["trend_strength"] \in 3..8
        /\ ret.value["volatility"] \in 10..500
        /\ ret.value["public_sentiment"] \in {"bullish", "bearish", "neutral"}
        /\ ret.value["current_trend"] \in {"upward", "downward", "sideways"}

C9_Witness ==
    /\ call.fn = "analyze_forex_trends"
    /\ ret.kind = "return"
    /\ ret.value["trend_strength"] = 8
    /\ ret.value["volatility"] = 500
    /\ env.draw.uniform = 4996

\* C10: analyze_forex_trends returns a trend record and raises no exception
\* for every string that analyze_currency_pair lets into a run (one holding
\* a "/").
C10_TrendsNeverRaise ==
    (call.fn = "analyze_forex_trends" /\ ~NoSeparator(call.pair) /\ ret # Pending) =>
        ret.kind = "return"


\* C11: while one of the three credentials is absent the analyze button is
\* disabled: the dashboard starts no run, so for the caller main no call of
\* analyze_currency_pair happens, no stage runs and no request of a run is sent.
C11_NoRunWithoutKeys ==
    (caller = "main" /\ keys # {"EXCHANGE_RATE_API_KEY", "NEWS_API_KEY", "GROQ_API_KEY"}) =>
        /\ pc \in {"render", "button"}
        /\ state = << >>
        /\ executed = << >>
        /\ calls = << >>
        /\ result = Pending
        /\ ui = BlankPage

C11_Witness ==
    /\ caller = "main"
    /\ pc = "button"
    /\ keys = {"EXCHANGE_RATE_API_KEY", "NEWS_API_KEY"}

\* C12: for a 200 from the rate service that carries the three consumed
\* fields, get_exchange_rate returns a record with status "success" whose
\* rate, last_updated and next_update are the response's conversion_rate,
\* time_last_update_utc and time_next_update_utc, and whose currencies are
\* the arguments.
CompleteRateResponse(resp) ==
    /\ resp.kind = "http"
    /\ resp.status_code = 200
    /\ resp.body.json
    /\ {"conversion_rate", "time_last_update_utc", "time_next_update_utc"}
          \subseteq DOMAIN resp.body.data

C12_RateSuccessRecord ==
    (call.fn = "get_exchange_rate" /\ ret # Pending /\ CompleteRateResponse(env)) =>
        /\ ret.kind = "return"
        /\ ret.value["status"] = "success"
        /\ ret.value["rate"] = env.body.data["conversion_rate"]
        /\ ret.value["last_updated"] = env.body.data["time_last_update_utc"]
        /\ ret.value["next_update"] = env.body.data["time_next_update_utc"]
        /\ ret.value["base_currency"] = call.base
        /\ ret.value["target_currency"] = call.target

C12_Witness ==
    /\ call.fn = "get_exchange_rate"
    /\ ret.kind = "return"
    /\ CompleteRateResponse(env)
    /\ env.body.data["conversion_rate"] = "83.5"
    /\ env.body.data["time_last_update_utc"] # env.body.data["time_next_update_utc"]
    /\ ret.value["rate"] = "83.5"
    /\ ret.value["status"] = "success"


\* C13: nothing is retried: within one run the rate service is called at
\* most once, the news service at most once and the model service at most
\* twice, at most once by each of analyze_data and generate_report, whether
\* or not a call failed.
CallsTo(service) == Len(SelectSeq(calls, LAMBDA e : e.service = service))
TimesRun(node) == Len(SelectSeq(executed, LAMBDA n : n = node))

C13_NoRetry ==
    /\ CallsTo("rate") <= 1
    /\ CallsTo("news") <= 1
    /\ CallsTo("model") <= 2
    /\ CallsTo("rate") <= TimesRun("collect_exchange_rate")
    /\ CallsTo("news") <= TimesRun("collect_news")
    /\ CallsTo("model") <= TimesRun("analyze_data") + TimesRun("generate_report")
    /\ Len(calls) = CallsTo("rate") + CallsTo("news") + CallsTo("model")

C13_Witness ==
    /\ pc = "failed"
    /\ FetchFailed("rate")
    /\ FetchFailed("news")
    /\ CallsTo("rate") = 1
    /\ CallsTo("news") = 1
    /\ CallsTo("model") = 2
    /\ ModelCallFailed

\* C14: the analysis state is created holding only currency_pair, and every
\* later change of it adds exactly one key, the field of the stage that ran,
\* and leaves every key it already held, currency_pair and stored error
\* records included, with the value it had.
FieldOf(node) ==
    IF node = "collect_exchange_rate" THEN "exchange_rate_data"
    ELSE IF node = "collect_news" THEN "news_data"
    ELSE IF node = "collect_trends" THEN "trend_data"
    ELSE IF node = "analyze_data" THEN "data_analysis"
    ELSE "final_report"

StateCreated ==
    /\ state = << >>
    /\ DOMAIN state' = {"currency_pair"}
    /\ state'["currency_pair"] = currency_pair

OneFieldAdded ==
    /\ pc \in Stages
    /\ FieldOf(pc) \notin DOMAIN state
    /\ DOMAIN state' = DOMAIN state \cup {FieldOf(pc)}
    /\ \A k \in DOMAIN state : state'[k] = state[k]

C14_OneFieldPerStage ==
    [][state' = state \/ StateCreated \/ OneFieldAdded]_vars

C14_Witness ==
    /\ pc = "done"
    /\ IsErrorRecord(state["exchange_rate_data"])
    /\ IsErrorRecord(state["news_data"])
    /\ state["currency_pair"] = currency_pair


\* C15: every run that has started ends in one of two states and stays
\* there: done, with the final report returned, or failed, with the exception
\* that escaped a stage; a run in a stage always moves on, and nothing of the
\* run changes once it is done or failed.
Terminal == {"done", "failed"}
RunUnchanged == UNCHANGED << pc, state, executed, calls, raised, result, ui >>

C15_RunTerminates ==
    /\ (pc \in Stages) ~> (pc \in Terminal)
    /\ [][(pc \in Terminal) => RunUnchanged]_vars
    /\ [](pc = "done" =>
            /\ raised = NoRaise
            /\ "final_report" \in DOMAIN state
            /\ result = Return(state["final_report"]))
    /\ [](pc = "failed" =>
            /\ raised.node \in Stages
            /\ result = Raise(raised.exc)
            /\ "final_report" \notin DOMAIN state)

C15_Witness ==
    /\ caller = "direct"
    /\ pc = "failed"
    /\ raised.node = "generate_report"
    /\ Len(executed) = 5


\* C16: every string that passes the entry check of analyze_currency_pair
\* (it holds a "/") gets through collect_exchange_rate, collect_news and
\* collect_trends without an exception, so a run that failed failed in
\* analyze_data or generate_report.
C16_CollectionStagesNeverRaise ==
    (~NoSeparator(currency_pair) /\ pc = "failed") =>
        raised.node \in {"analyze_data", "generate_report"}

\* C17: a record of get_exchange_rate with status "success" carries rate,
\* last_updated and next_update, each taken from the response; a 200 whose
\* body does not parse or lacks a consumed field gives an error record, not
\* an exception and not a success record with a hole.
IncompleteRateResponse(resp) ==
    /\ resp.kind = "http"
    /\ resp.status_code = 200
    /\ \/ ~resp.body.json
       \/ ~({"conversion_rate", "time_last_update_utc", "time_next_update_utc"}
               \subseteq DOMAIN resp.body.data)

C17_SuccessRecordComplete ==
    (call.fn = "get_exchange_rate" /\ ret # Pending) =>
        /\ ret.kind = "return"
        /\ "status" \in DOMAIN ret.value
        /\ ret.value["status"] = "success" =>
              /\ {"rate", "last_updated", "next_update"} \subseteq DOMAIN ret.value
              /\ \A k \in {"rate", "last_updated", "next_update"} : ret.value[k] # "None"
        /\ IncompleteRateResponse(env) => IsErrorRecord(ret.value)

C17_Witness ==
    /\ call.fn = "get_exchange_rate"
    /\ env.kind = "http"
    /\ env.status_code = 200
    /\ env.body.json
    /\ DOMAIN env.body.data = {"conversion_rate", "time_last_update_utc"}
    /\ ret.kind = "return"
    /\ IsErrorRecord(ret.value)

====
